---- MODULE Spec2Model ----
(***************************************************************************)
(* Model of extract_live_segment.py: the manifest parsing, the time to     *)
(* segment-index arithmetic, the playlist synthesis and the main pipeline  *)
(* with its transient playlist file.                                       *)
(*                                                                         *)
(* Text is a sequence of tokens.  A token is a run of characters that the  *)
(* code never looks inside: one digit, one brace, one slash, one blank,    *)
(* the letters "sq", a whole directive tag, a whole ISO timestamp.  The    *)
(* concatenation of the tokens is the Python string.  A manifest is the    *)
(* sequence of its lines, as manifest.splitlines() gives it.               *)
(***************************************************************************)
EXTENDS Integers, Sequences, FiniteSets, TLC

\* ------------------------------------------------------------------ bounds

MaxLines == 3
MaxRefLines == 4
MaxMainLines == 2
MaxOffset == 12
MaxSq == 3
MaxBuffer == 3

\* ------------------------------------------------------- program constants

SegmentDuration == 5
DefaultBuffer == 60

\* ----------------------------------------------------------- Python values

None == [some |-> FALSE]
Some(v) == [some |-> TRUE, val |-> v]

Ok(v) == [ok |-> TRUE, val |-> v]
Raise(e) == [ok |-> FALSE, err |-> e]

\* --------------------------------------------------------------- str tokens

PDT == "#EXT-X-PROGRAM-DATE-TIME:"
HashTokens == {"#", "#EXTM3U", "#EXTINF:5.0,", "#EXT-X-ENDLIST", PDT}
DigitTokens == {"0", "1", "2", "3", "4", "5", "6", "7", "8", "9"}

DigitVal(d) ==
  CASE d = "0" -> 0 [] d = "1" -> 1 [] d = "2" -> 2 [] d = "3" -> 3
    [] d = "4" -> 4 [] d = "5" -> 5 [] d = "6" -> 6 [] d = "7" -> 7
    [] d = "8" -> 8 [] d = "9" -> 9

DigitTok(k) ==
  CASE k = 0 -> "0" [] k = 1 -> "1" [] k = 2 -> "2" [] k = 3 -> "3"
    [] k = 4 -> "4" [] k = 5 -> "5" [] k = 6 -> "6" [] k = 7 -> "7"
    [] k = 8 -> "8" [] k = 9 -> "9"

\* str.strip(): leading and trailing whitespace removed
RECURSIVE LStrip(_)
LStrip(s) ==
  IF s = <<>> THEN s
  ELSE IF Head(s) = " " THEN LStrip(Tail(s)) ELSE s

RECURSIVE RStrip(_)
RStrip(s) ==
  IF s = <<>> THEN s
  ELSE IF s[Len(s)] = " " THEN RStrip(SubSeq(s, 1, Len(s) - 1)) ELSE s

Strip(s) == RStrip(LStrip(s))

\* s.startswith("#")
StartsWithHash(s) == s # <<>> /\ Head(s) \in HashTokens

\* s.startswith("#EXT-X-PROGRAM-DATE-TIME:")
StartsWithPDT(s) == s # <<>> /\ Head(s) = PDT

\* str(n) of an int
RECURSIVE NatStr(_)
NatStr(n) ==
  IF n < 10 THEN <<DigitTok(n)>>
  ELSE NatStr(n \div 10) \o <<DigitTok(n % 10)>>

IntStr(n) == IF n < 0 THEN <<"-">> \o NatStr(-n) ELSE NatStr(n)

\* the value of a run of decimal digits
RECURSIVE DigitsVal(_)
DigitsVal(ds) ==
  IF ds = <<>> THEN 0
  ELSE 10 * DigitsVal(SubSeq(ds, 1, Len(ds) - 1)) + DigitVal(ds[Len(ds)])

AllDigits(s) == s # <<>> /\ \A i \in 1..Len(s) : s[i] \in DigitTokens

\* ------------------------------------------------------ regex /sq/\d+/

\* the length of the run of digits of s that starts at position i
RECURSIVE DigitRun(_, _)
DigitRun(s, i) ==
  IF i <= Len(s) /\ s[i] \in DigitTokens THEN 1 + DigitRun(s, i + 1) ELSE 0

\* the length of the match of /sq/\d+/ anchored at position i, 0 when none
SqMatchLen(s, i) ==
  IF i + 2 <= Len(s) /\ s[i] = "/" /\ s[i + 1] = "sq" /\ s[i + 2] = "/"
  THEN LET k == DigitRun(s, i + 3)
       IN IF k >= 1 /\ i + 3 + k <= Len(s) /\ s[i + 3 + k] = "/"
          THEN 4 + k ELSE 0
  ELSE 0

\* re.search(r"/sq/(\d+)/", s): the position of the leftmost match, 0 when none
RECURSIVE SqSearchFrom(_, _)
SqSearchFrom(s, i) ==
  IF i > Len(s) THEN 0
  ELSE IF SqMatchLen(s, i) > 0 THEN i ELSE SqSearchFrom(s, i + 1)

SqSearch(s) == SqSearchFrom(s, 1)

\* match.group(1) of the match at position i
SqGroup(s, i) == SubSeq(s, i + 3, i + SqMatchLen(s, i) - 2)

Placeholder == <<"/", "sq", "/", "{", "sq", "}", "/">>

\* re.sub(r"/sq/\d+/", "/sq/{sq}/", s): every non-overlapping match, left to right
RECURSIVE SqSubFrom(_, _)
SqSubFrom(s, i) ==
  IF i > Len(s) THEN <<>>
  ELSE LET m == SqMatchLen(s, i)
       IN IF m > 0 THEN Placeholder \o SqSubFrom(s, i + m)
          ELSE <<s[i]>> \o SqSubFrom(s, i + 1)

SqSub(s) == SqSubFrom(s, 1)

\* ------------------------------------------------------------- str.format

\* the position of the first "}" of t at or after i, 0 when none
RECURSIVE CloseFrom(_, _)
CloseFrom(t, i) ==
  IF i > Len(t) THEN 0
  ELSE IF t[i] = "}" THEN i ELSE CloseFrom(t, i + 1)

\* t.format(sq=n) from position i on: "{{" and "}}" are literal braces, "{sq}"
\* is str(n), any other field is a KeyError, a single brace is a ValueError
RECURSIVE FormatFrom(_, _, _)
FormatFrom(t, n, i) ==
  IF i > Len(t) THEN Ok(<<>>)
  ELSE LET lit(c, next) ==
             LET rest == FormatFrom(t, n, next)
             IN IF rest.ok THEN Ok(c \o rest.val) ELSE rest
       IN CASE t[i] = "{" ->
                 IF i + 1 <= Len(t) /\ t[i + 1] = "{" THEN lit(<<"{">>, i + 2)
                 ELSE LET j == CloseFrom(t, i + 1)
                      IN IF j = 0 THEN Raise("ValueError")
                         ELSE IF SubSeq(t, i + 1, j - 1) = <<"sq">>
                              THEN lit(IntStr(n), j + 1)
                              ELSE Raise("KeyError")
            [] t[i] = "}" ->
                 IF i + 1 <= Len(t) /\ t[i + 1] = "}" THEN lit(<<"}">>, i + 2)
                 ELSE Raise("ValueError")
            [] OTHER -> lit(<<t[i]>>, i + 1)

Format(t, n) == FormatFrom(t, n, 1)

\* ------------------------------------------------------------- parse_utc

IsoTokens ==
  {"2025-02-13T21:00:00Z", "2025-02-13T21:01:00Z", "2025-02-13T21:00:10Z",
   "2025-02-13T20:59:53", "2025-02-13T21:00:03+00:00"}

\* datetime.fromisoformat of the timestamp (after the trailing Z is rewritten
\* to +00:00 and a naive value is taken as UTC), as seconds after
\* 2025-02-13T21:00:00Z
IsoSeconds(tok) ==
  CASE tok = "2025-02-13T21:00:00Z" -> 0
    [] tok = "2025-02-13T21:01:00Z" -> 60
    [] tok = "2025-02-13T21:00:10Z" -> 10
    [] tok = "2025-02-13T20:59:53" -> -7
    [] tok = "2025-02-13T21:00:03+00:00" -> 3

parse_utc(s) ==
  LET t == Strip(s)
  IN IF Len(t) = 1 /\ t[1] \in IsoTokens THEN Ok(IsoSeconds(t[1]))
     ELSE Raise("ValueError")

\* ------------------------------------------------------- is_integer, int

\* the digits of an optionally signed numeral, blanks stripped
Numeral(s) ==
  LET t == Strip(s)
  IN IF t # <<>> /\ Head(t) \in {"-", "+"} THEN Tail(t) ELSE t

is_integer(s) == AllDigits(Numeral(s))

\* int(s), for is_integer(s)
IntOf(s) ==
  LET t == Strip(s)
  IN IF Head(t) = "-" THEN -DigitsVal(Numeral(s)) ELSE DigitsVal(Numeral(s))

\* -------------------------------------------------- extract_template_url

RECURSIVE ExtractFrom(_, _)
ExtractFrom(manifest, i) ==
  IF i > Len(manifest) THEN Raise("ValueError")
  ELSE LET line == Strip(manifest[i])
       IN IF line # <<>> /\ ~StartsWithHash(line) THEN Ok(SqSub(line))
          ELSE ExtractFrom(manifest, i + 1)

extract_template_url(manifest) == ExtractFrom(manifest, 1)

\* ----------------------------------------- find_manifest_reference_point

\* the inner loop: the first non-empty non-directive line at or after j gives
\* its sequence number when the pattern matches it; the loop breaks there
RECURSIVE NextSegmentNum(_, _)
NextSegmentNum(lines, j) ==
  IF j > Len(lines) THEN None
  ELSE LET seg_line == Strip(lines[j])
       IN IF seg_line # <<>> /\ ~StartsWithHash(seg_line)
          THEN LET m == SqSearch(seg_line)
               IN IF m > 0 THEN Some(DigitsVal(SqGroup(seg_line, m))) ELSE None
          ELSE NextSegmentNum(lines, j + 1)

\* the outer loop, from line i on, with the two variables it updates
RECURSIVE RefScan(_, _, _, _)
RefScan(lines, i, last_datetime, last_segment_num) ==
  IF i > Len(lines) THEN <<last_datetime, last_segment_num>>
  ELSE IF StartsWithPDT(lines[i])
       THEN LET found == NextSegmentNum(lines, i + 1)
            IN RefScan(lines, i + 1, Some(Strip(Tail(lines[i]))),
                       IF found.some THEN found ELSE last_segment_num)
       ELSE RefScan(lines, i + 1, last_datetime, last_segment_num)

find_manifest_reference_point(manifest) ==
  LET r == RefScan(manifest, 1, None, None)
  IN IF r[1].some /\ r[1].val # <<>> /\ r[2].some
     THEN Some(<<r[2].val, r[1].val>>)
     ELSE None

\* --------------------------------------------------- segments_from_times

\* int(x / d) of a float quotient: the fraction is dropped
FloorDiv(x, d) == x \div d

TruncDiv(x, d) == IF x >= 0 THEN x \div d ELSE -((-x) \div d)

segments_from_times(ref_segment, ref_time, start_utc, end_utc, buffer_seconds) ==
  LET ref_dt == parse_utc(ref_time)
  IN IF ~ref_dt.ok THEN ref_dt
     ELSE LET start_offset == (start_utc - ref_dt.val) - buffer_seconds
              end_offset == (end_utc - ref_dt.val) + buffer_seconds
          IN Ok(<<ref_segment + TruncDiv(start_offset, SegmentDuration),
                  ref_segment + TruncDiv(end_offset, SegmentDuration)>>)

\* -------------------------------------------------------- build_playlist

ExtInf == <<"#EXTINF:5.0,">>

PlaylistHead(start_sq) ==
  << <<"#EXTM3U">>,
     <<"#EXT-X-VERSION:3">>,
     <<"#EXT-X-TARGETDURATION:">> \o IntStr(SegmentDuration),
     <<"#EXT-X-MEDIA-SEQUENCE:">> \o IntStr(start_sq) >>

\* the loop over range(sq, end_sq + 1)
RECURSIVE SegmentEntries(_, _, _)
SegmentEntries(template_url, sq, end_sq) ==
  IF sq > end_sq THEN Ok(<<>>)
  ELSE LET uri == Format(template_url, sq)
       IN IF ~uri.ok THEN uri
          ELSE LET rest == SegmentEntries(template_url, sq + 1, end_sq)
               IN IF rest.ok THEN Ok(<<ExtInf, uri.val>> \o rest.val) ELSE rest

build_playlist_exclusive(template_url, start_sq, end_sq) ==
  LET entries == SegmentEntries(template_url, start_sq, end_sq - 1)
  IN IF ~entries.ok THEN entries
     ELSE Ok(PlaylistHead(start_sq) \o entries.val \o << <<"#EXT-X-ENDLIST">> >>)

build_playlist(template_url, start_sq, end_sq) ==
  LET entries == SegmentEntries(template_url, start_sq, end_sq)
  IN IF ~entries.ok THEN entries
     ELSE Ok(PlaylistHead(start_sq) \o entries.val \o << <<"#EXT-X-ENDLIST">> >>)

\* =================================================================== state

VARIABLES
  call,      \* the function applied in isolation, with its arguments
  ret,       \* its result, once it has returned
  argv,      \* per invocation: sys.argv, or "usage" when too short
  pc,        \* per invocation: the statement of main() it stands before
  loc,       \* per invocation: the local variables of main()
  exit,      \* per invocation: how the process ended
  log,       \* per invocation: the calls made so far, in order
  origin,    \* the manifests the stream's origin may serve
  tmpfile,   \* the file <tempdir>/live_segment.m3u8: None, or Some(content)
  muxRead    \* per invocation: what ffmpeg found at the path it was given

vars == <<call, ret, argv, pc, loc, exit, log, origin, tmpfile, muxRead>>

mainVars == <<argv, pc, loc, exit, log, origin, tmpfile, muxRead>>

Procs == {1, 2}

NoCall == [fn |-> "none"]
NoRet == [done |-> FALSE]
Returned(r) == [done |-> TRUE, res |-> r]

NoLocals ==
  [segment_mode |-> FALSE, buffer_seconds |-> DefaultBuffer, manifest |-> <<>>,
   ref |-> None, range |-> None, template |-> None, playlist |-> None,
   returncode |-> None]

Running == [ended |-> FALSE]
Exited(code, why) == [ended |-> TRUE, code |-> code, why |-> why]

NotRun == [st |-> "not_run"]

\* no invocation has been launched
MainIdle ==
  /\ argv = [p \in Procs |-> "usage"]
  /\ pc = [p \in Procs |-> "off"]
  /\ loc = [p \in Procs |-> NoLocals]
  /\ exit = [p \in Procs |-> Running]
  /\ log = [p \in Procs |-> <<>>]
  /\ origin = {}
  /\ tmpfile = None
  /\ muxRead = [p \in Procs |-> NotRun]

\* all sequences over S of length at most n
SeqsUpTo(S, n) == UNION {[1..k -> S] : k \in 0..n}

\* ------------------------------------------------- inputs of the functions

Host == "https://host"

UriPlain == <<Host, "/", "sq", "/", "1", "/", "seg.ts">>
UriNoSq == <<Host, "/", "seg.ts">>
UriLeadingZero == <<Host, "/", "sq", "/", "0", "7", "/">>
UriTwoSq == <<Host, "/", "sq", "/", "1", "/", "a", "/", "sq", "/", "2", "/">>
UriField == <<Host, "/", "sq", "/", "1", "/", "{", "a", "}">>
UriBraces == <<Host, "{", "{", "/", "sq", "/", "1", "/">>
UriPadded == <<" ", Host, "/", "sq", "/", "2", "/", " ">>

UriLines ==
  {UriPlain, UriNoSq, UriLeadingZero, UriTwoSq, UriField, UriBraces, UriPadded}

TemplateLines ==
  UriLines \cup {<<>>, <<" ">>, <<"#EXTM3U">>, <<" ", "#EXTINF:5.0,">>}

T0 == "2025-02-13T21:00:00Z"
T1 == "2025-02-13T21:01:00Z"

RefLines ==
  { <<PDT, T0>>, <<PDT, " ", T1>>, <<PDT>>, <<"#EXTINF:5.0,">>, <<>>,
    <<Host, "/", "sq", "/", "5", "/", "seg.ts">>,
    <<Host, "/", "sq", "/", "6", "/", "seg.ts">>,
    UriNoSq }

\* the templates extract_template_url returns for one-line manifests
Templates == {extract_template_url(<<l>>).val : l \in UriLines}

\* where ranges start, and by how much their end exceeds their start
Starts == {-2, 0, 9, 99, 100}
Extents == -2 .. MaxSq

Instants == (-MaxOffset .. MaxOffset) \cup {60}

Buffers == (0 .. MaxBuffer) \cup {DefaultBuffer}

RefTimes == {<<t>> : t \in IsoTokens} \cup {<<" ", T0, " ">>, <<"garbage">>}

\* --------------------------------------- the functions applied in isolation

InitTemplate ==
  /\ call \in {[fn |-> "extract_template_url", manifest |-> m] :
                 m \in SeqsUpTo(TemplateLines, MaxLines)}
  /\ ret = NoRet
  /\ MainIdle

CallExtractTemplate ==
  /\ call.fn = "extract_template_url"
  /\ ~ret.done
  /\ ret' = Returned(extract_template_url(call.manifest))
  /\ UNCHANGED <<call, mainVars>>

SpecTemplate == InitTemplate /\ [][CallExtractTemplate]_vars

InitRef ==
  /\ call \in {[fn |-> "find_manifest_reference_point", manifest |-> m] :
                 m \in SeqsUpTo(RefLines, MaxRefLines)}
  /\ ret = NoRet
  /\ MainIdle

CallFindReferencePoint ==
  /\ call.fn = "find_manifest_reference_point"
  /\ ~ret.done
  /\ ret' = Returned(find_manifest_reference_point(call.manifest))
  /\ UNCHANGED <<call, mainVars>>

SpecRef == InitRef /\ [][CallFindReferencePoint]_vars

InitTimes ==
  /\ call \in [fn : {"segments_from_times"}, ref_segment : {0, 1000},
               ref_time : RefTimes, start_utc : Instants, end_utc : Instants,
               buffer_seconds : Buffers]
  /\ ret = NoRet
  /\ MainIdle

CallSegmentsFromTimes ==
  /\ call.fn = "segments_from_times"
  /\ ~ret.done
  /\ ret' = Returned(segments_from_times(call.ref_segment, call.ref_time,
                       call.start_utc, call.end_utc, call.buffer_seconds))
  /\ UNCHANGED <<call, mainVars>>

SpecTimes == InitTimes /\ [][CallSegmentsFromTimes]_vars

InitPlaylist ==
  /\ call \in {[fn |-> "build_playlist", template_url |-> t, start_sq |-> a,
                 end_sq |-> a + d] : t \in Templates, a \in Starts, d \in Extents}
  /\ ret = NoRet
  /\ MainIdle

CallBuildPlaylist ==
  /\ call.fn = "build_playlist"
  /\ ~ret.done
  /\ ret' = Returned(build_playlist(call.template_url, call.start_sq, call.end_sq))
  /\ UNCHANGED <<call, mainVars>>

SpecPlaylist == InitPlaylist /\ [][CallBuildPlaylist]_vars

\* ================================================================= main()

UriThousand == <<Host, "/", "sq", "/", "1", "0", "0", "0", "/", "seg.ts">>

MainLines == {<<PDT, T0>>, <<PDT, "garbage">>, UriThousand, UriNoSq, UriField}

MainManifests == SeqsUpTo(MainLines, MaxMainLines)

\* the two window tokens and the value after --buffer, None without the flag
ArgTokens ==
  {<<"1">>, <<"0", "3">>, <<" ", "-", "1">>, <<T0>>, <<"2025-02-13T21:00:10Z">>,
   <<"seg.ts">>}

BufferArgs == {None, Some(<<"0">>), Some(<<"seg.ts">>)}

ShortArgv == [short |-> TRUE, arg3 |-> <<>>, arg4 |-> <<>>, buffer |-> None]

Argvs ==
  {ShortArgv} \cup [short : {FALSE}, arg3 : ArgTokens, arg4 : ArgTokens,
                    buffer : BufferArgs]

Entry(op, args) == [op |-> op, args |-> args]

HasOp(p, op) == \E i \in 1 .. Len(log[p]) : log[p][i].op = op

\* sys.exit(code), or an uncaught exception (exit status 1), before the
\* transient playlist exists
Die(p, why) ==
  /\ pc' = [pc EXCEPT ![p] = "end"]
  /\ exit' = [exit EXCEPT ![p] = Exited(1, why)]

\* lines 148-165: the usage check, --buffer, the choice of the mode
Start(p) ==
  /\ pc[p] = "start"
  /\ IF argv[p].short
     THEN Die(p, "usage") /\ UNCHANGED loc
     ELSE IF argv[p].buffer.some /\ ~is_integer(argv[p].buffer.val)
     THEN Die(p, "ValueError") /\ UNCHANGED loc
     ELSE /\ loc' = [loc EXCEPT
                 ![p].buffer_seconds =
                    IF argv[p].buffer.some THEN IntOf(argv[p].buffer.val)
                    ELSE DefaultBuffer,
                 ![p].segment_mode =
                    is_integer(argv[p].arg3) /\ is_integer(argv[p].arg4)]
          /\ pc' = [pc EXCEPT ![p] = "ytdlp"]
          /\ UNCHANGED exit
  /\ UNCHANGED <<call, ret, argv, log, origin, tmpfile, muxRead>>

\* lines 168-172 with run_cmd: yt-dlp prints the manifest URL or fails
RunYtDlp(p) ==
  /\ pc[p] = "ytdlp"
  /\ \E returncode \in {0, 1} :
       IF returncode # 0
       THEN Die(p, "yt-dlp failed")
       ELSE pc' = [pc EXCEPT ![p] = "fetch"] /\ UNCHANGED exit
  /\ log' = [log EXCEPT ![p] = Append(@, Entry("yt-dlp", <<>>))]
  /\ UNCHANGED <<call, ret, argv, loc, origin, tmpfile, muxRead>>

\* lines 176-181: the manifest arrives and the reference point is looked for
FetchManifest(p) ==
  /\ pc[p] = "fetch"
  /\ \E manifest \in origin :
       loc' = [loc EXCEPT ![p].manifest = manifest,
                          ![p].ref = find_manifest_reference_point(manifest)]
  /\ log' = [log EXCEPT ![p] = Append(@, Entry("find_manifest_reference_point", <<>>))]
  /\ pc' = [pc EXCEPT ![p] = "window"]
  /\ UNCHANGED <<call, ret, argv, exit, origin, tmpfile, muxRead>>

\* line 176: urlopen raises
FetchFails(p) ==
  /\ pc[p] = "fetch"
  /\ Die(p, "URLError")
  /\ UNCHANGED <<call, ret, argv, loc, log, origin, tmpfile, muxRead>>

\* the else branch of lines 187-196 when the reference point is there
TimeWindow(p) ==
  LET start_utc == parse_utc(argv[p].arg3)
      end_utc == parse_utc(argv[p].arg4)
      parsed == Entry("parse_utc", <<>>)
  IN IF ~start_utc.ok
     THEN /\ Die(p, "ValueError")
          /\ log' = [log EXCEPT ![p] = Append(@, parsed)]
          /\ UNCHANGED loc
     ELSE IF ~end_utc.ok
     THEN /\ Die(p, "ValueError")
          /\ log' = [log EXCEPT ![p] = @ \o <<parsed, parsed>>]
          /\ UNCHANGED loc
     ELSE LET r == segments_from_times(loc[p].ref.val[1], loc[p].ref.val[2],
                     start_utc.val, end_utc.val, loc[p].buffer_seconds)
          IN /\ log' = [log EXCEPT ![p] = @ \o <<parsed, parsed, parsed>>]
             /\ IF ~r.ok
                THEN Die(p, "ValueError") /\ UNCHANGED loc
                ELSE /\ loc' = [loc EXCEPT ![p].range = Some(r.val)]
                     /\ pc' = [pc EXCEPT ![p] = "template"]
                     /\ UNCHANGED exit

\* a check of the reference point that comes after the window is parsed
ResolveWindow_LateCheck(p) ==
  /\ pc[p] = "window"
  /\ IF loc[p].segment_mode
     THEN /\ loc' = [loc EXCEPT ![p].range =
                       Some(<<IntOf(argv[p].arg3), IntOf(argv[p].arg4)>>)]
          /\ pc' = [pc EXCEPT ![p] = "template"]
          /\ UNCHANGED <<exit, log>>
     ELSE IF parse_utc(argv[p].arg3).ok /\ parse_utc(argv[p].arg4).ok /\ ~loc[p].ref.some
     THEN /\ Die(p, "NoReferencePointError")
          /\ log' = [log EXCEPT ![p] = @ \o <<Entry("parse_utc", <<>>), Entry("parse_utc", <<>>)>>]
          /\ UNCHANGED loc
     ELSE IF ~loc[p].ref.some
     THEN Die(p, "ValueError") /\ UNCHANGED <<loc, log>>
     ELSE TimeWindow(p)
  /\ UNCHANGED <<call, ret, argv, origin, tmpfile, muxRead>>

\* a segment mode that widens the range by the buffer as the time mode does
ResolveWindow_Buffered(p) ==
  /\ pc[p] = "window"
  /\ IF loc[p].segment_mode
     THEN /\ loc' = [loc EXCEPT ![p].range =
                       Some(<<IntOf(argv[p].arg3) - loc[p].buffer_seconds \div SegmentDuration,
                              IntOf(argv[p].arg4) + loc[p].buffer_seconds \div SegmentDuration>>)]
          /\ pc' = [pc EXCEPT ![p] = "template"]
          /\ UNCHANGED <<exit, log>>
     ELSE IF ~loc[p].ref.some
     THEN Die(p, "NoReferencePointError") /\ UNCHANGED <<loc, log>>
     ELSE TimeWindow(p)
  /\ UNCHANGED <<call, ret, argv, origin, tmpfile, muxRead>>

\* lines 184-196: the segment range, from the integers or from the times
ResolveWindow(p) ==
  /\ pc[p] = "window"
  /\ IF loc[p].segment_mode
     THEN /\ loc' = [loc EXCEPT ![p].range =
                       Some(<<IntOf(argv[p].arg3), IntOf(argv[p].arg4)>>)]
          /\ pc' = [pc EXCEPT ![p] = "template"]
          /\ UNCHANGED <<exit, log>>
     ELSE IF ~loc[p].ref.some
     THEN Die(p, "NoReferencePointError") /\ UNCHANGED <<loc, log>>
     ELSE TimeWindow(p)
  /\ UNCHANGED <<call, ret, argv, origin, tmpfile, muxRead>>

\* lines 199-204
ExtractTemplate(p) ==
  /\ pc[p] = "template"
  /\ LET r == extract_template_url(loc[p].manifest)
     IN IF ~r.ok
        THEN Die(p, r.err) /\ UNCHANGED loc
        ELSE /\ loc' = [loc EXCEPT ![p].template = Some(r.val)]
             /\ pc' = [pc EXCEPT ![p] = "build"]
             /\ UNCHANGED exit
  /\ log' = [log EXCEPT ![p] = Append(@, Entry("extract_template_url", <<>>))]
  /\ UNCHANGED <<call, ret, argv, origin, tmpfile, muxRead>>

\* line 206
BuildPlaylist(p) ==
  /\ pc[p] = "build"
  /\ LET r == build_playlist(loc[p].template.val, loc[p].range.val[1], loc[p].range.val[2])
     IN IF ~r.ok
        THEN Die(p, r.err) /\ UNCHANGED loc
        ELSE /\ loc' = [loc EXCEPT ![p].playlist = Some(r.val)]
             /\ pc' = [pc EXCEPT ![p] = "write"]
             /\ UNCHANGED exit
  /\ log' = [log EXCEPT ![p] = Append(@, Entry("build_playlist", loc[p].range.val))]
  /\ UNCHANGED <<call, ret, argv, origin, tmpfile, muxRead>>

\* lines 209-212: the playlist goes to the one path every invocation uses
WritePlaylist(p) ==
  /\ pc[p] = "write"
  /\ tmpfile' = Some(loc[p].playlist.val)
  /\ log' = [log EXCEPT ![p] = Append(@, Entry("write", <<>>))]
  /\ pc' = [pc EXCEPT ![p] = "ffmpeg"]
  /\ UNCHANGED <<call, ret, argv, loc, exit, origin, muxRead>>

\* lines 215-227: ffmpeg runs on the path; it fails when nothing is there and
\* may fail or succeed on what it reads
RunFfmpeg(p) ==
  /\ pc[p] = "ffmpeg"
  /\ IF tmpfile.some
     THEN /\ muxRead' = [muxRead EXCEPT ![p] = [st |-> "read", val |-> tmpfile.val]]
          /\ \E returncode \in {0, 1} :
               loc' = [loc EXCEPT ![p].returncode = Some(returncode)]
     ELSE /\ muxRead' = [muxRead EXCEPT ![p] = [st |-> "missing", val |-> <<>>]]
          /\ loc' = [loc EXCEPT ![p].returncode = Some(1)]
  /\ log' = [log EXCEPT ![p] = Append(@, Entry("ffmpeg", <<>>))]
  /\ pc' = [pc EXCEPT ![p] = "finally"]
  /\ UNCHANGED <<call, ret, argv, exit, origin, tmpfile>>

\* lines 217-227: subprocess.run raises, there is no ffmpeg to run
FfmpegNotFound(p) ==
  /\ pc[p] = "ffmpeg"
  /\ pc' = [pc EXCEPT ![p] = "finally"]
  /\ UNCHANGED <<call, ret, argv, loc, exit, log, origin, tmpfile, muxRead>>

\* how main() ends once the finally clause has run
Outcome(p) ==
  IF ~loc[p].returncode.some THEN Exited(1, "FileNotFoundError")
  ELSE IF loc[p].returncode.val # 0 THEN Exited(1, "ffmpeg failed")
  ELSE Exited(0, "Done")

\* a removal that is skipped when sys.exit(1) or an exception leaves the block
Finally_NoCleanupOnFailure(p) ==
  /\ pc[p] = "finally"
  /\ tmpfile' = IF Outcome(p).code = 0 THEN None ELSE tmpfile
  /\ log' = [log EXCEPT ![p] = Append(@, Entry("remove", <<>>))]
  /\ exit' = [exit EXCEPT ![p] = Outcome(p)]
  /\ pc' = [pc EXCEPT ![p] = "end"]
  /\ UNCHANGED <<call, ret, argv, loc, origin, muxRead>>

\* lines 228-242: the finally clause removes the file at the path (an OSError,
\* as when it is already gone, is passed over), then the process ends
Finally(p) ==
  /\ pc[p] = "finally"
  /\ tmpfile' = None
  /\ log' = [log EXCEPT ![p] = Append(@, Entry("remove", <<>>))]
  /\ exit' = [exit EXCEPT ![p] = Outcome(p)]
  /\ pc' = [pc EXCEPT ![p] = "end"]
  /\ UNCHANGED <<call, ret, argv, loc, origin, muxRead>>

Next ==
  \E p \in Procs :
    \/ Start(p)
    \/ RunYtDlp(p)
    \/ FetchManifest(p)
    \/ FetchFails(p)
    \/ ResolveWindow(p)
    \/ ExtractTemplate(p)
    \/ BuildPlaylist(p)
    \/ WritePlaylist(p)
    \/ RunFfmpeg(p)
    \/ FfmpegNotFound(p)
    \/ Finally(p)

\* one invocation, any command line, any manifest
Init ==
  /\ call = NoCall
  /\ ret = NoRet
  /\ argv \in {[p \in Procs |-> IF p = 1 THEN a ELSE ShortArgv] : a \in Argvs}
  /\ pc = [p \in Procs |-> IF p = 1 THEN "start" ELSE "off"]
  /\ loc = [p \in Procs |-> NoLocals]
  /\ exit = [p \in Procs |-> Running]
  /\ log = [p \in Procs |-> <<>>]
  /\ origin = MainManifests
  /\ tmpfile = None
  /\ muxRead = [p \in Procs |-> NotRun]

Spec == Init /\ [][Next]_vars

\* the command lines of two invocations in segment mode
ConcArgvs ==
  [short : {FALSE}, arg3 : {<<"1">>, <<"0", "3">>}, arg4 : {<<"0", "3">>},
   buffer : {None}]

\* two invocations with different command lines on one machine
InitConc ==
  /\ call = NoCall
  /\ ret = NoRet
  /\ argv \in {a \in [Procs -> ConcArgvs] : a[1] # a[2]}
  /\ pc = [p \in Procs |-> "start"]
  /\ loc = [p \in Procs |-> NoLocals]
  /\ exit = [p \in Procs |-> Running]
  /\ log = [p \in Procs |-> <<>>]
  /\ origin = {<<UriThousand>>}
  /\ tmpfile = None
  /\ muxRead = [p \in Procs |-> NotRun]

SpecConc == InitConc /\ [][Next]_vars

\* ================================================= claims on the functions

\* q is x / SegmentDuration with the fraction dropped: the remainder is
\* smaller than the divisor and has the sign of x
IsTruncatedQuotient(q, x) ==
  \E r \in 0 .. (SegmentDuration - 1) :
    \/ x >= 0 /\ x = SegmentDuration * q + r
    \/ x <= 0 /\ x = SegmentDuration * q - r

\* C1: for every parseable reference time, every window and every buffer >= 0,
\* segments_from_times returns ref_segment plus the offset (window bound minus
\* reference time, minus resp. plus the buffer) divided by 5 and truncated
\* toward zero, for negative offsets too; reference (1000, 21:00:00Z) with
\* window 21:00:00Z..21:01:00Z gives (1000, 1012) at buffer 0 and (988, 1024)
\* at buffer 60.
C1_TimeWindowTruncates ==
  (ret.done /\ call.fn = "segments_from_times" /\ parse_utc(call.ref_time).ok) =>
    /\ ret.res.ok
    /\ LET ref == parse_utc(call.ref_time).val
       IN /\ IsTruncatedQuotient(ret.res.val[1] - call.ref_segment,
                                 (call.start_utc - ref) - call.buffer_seconds)
          /\ IsTruncatedQuotient(ret.res.val[2] - call.ref_segment,
                                 (call.end_utc - ref) + call.buffer_seconds)
    /\ (/\ call.ref_segment = 1000 /\ call.ref_time = <<T0>>
        /\ call.start_utc = 0 /\ call.end_utc = 60) =>
         /\ call.buffer_seconds = 0 => ret.res.val = <<1000, 1012>>
         /\ call.buffer_seconds = 60 => ret.res.val = <<988, 1024>>

\* a start offset of -7 s gives -1 segment (flooring would give -2), and the
\* end offset of +120 s gives +24
C1_Witness ==
  /\ ret.done /\ call.fn = "segments_from_times"
  /\ call.ref_segment = 1000 /\ call.ref_time = <<T0>>
  /\ call.start_utc = -7 /\ call.end_utc = 60 /\ call.buffer_seconds = 0
  /\ ret.res.ok /\ ret.res.val = <<999, 1012>>

\* the first non-empty non-directive line at or after i, 0 when there is none
NearestUri(lines, i) ==
  LET js == {j \in i .. Len(lines) :
               Strip(lines[j]) # <<>> /\ ~StartsWithHash(Strip(lines[j]))}
  IN IF js = {} THEN 0 ELSE CHOOSE j \in js : \A k \in js : j <= k

\* line i is a date-time directive with a timestamp, and the nearest URI line
\* after it carries a sequence number
HasPairing(lines, i) ==
  /\ StartsWithPDT(lines[i])
  /\ Strip(Tail(lines[i])) # <<>>
  /\ NearestUri(lines, i + 1) # 0
  /\ SqSearch(Strip(lines[NearestUri(lines, i + 1)])) > 0

\* the pairing of the last date-time directive that has one
LastPairing(lines) ==
  LET is == {i \in 1 .. Len(lines) : HasPairing(lines, i)}
  IN IF is = {} THEN None
     ELSE LET i == CHOOSE i \in is : \A k \in is : k <= i
              seg == Strip(lines[NearestUri(lines, i + 1)])
          IN Some(<<DigitsVal(SqGroup(seg, SqSearch(seg))), Strip(Tail(lines[i]))>>)

\* C2: find_manifest_reference_point returns the pairing of the last date-time
\* directive whose nearest subsequent non-directive line yields a sequence
\* number, index and timestamp from that same pairing, and None exactly when no
\* directive has such a pairing.
C2_LastPairingReturned ==
  (ret.done /\ call.fn = "find_manifest_reference_point") =>
    ret.res = LastPairing(call.manifest)

\* the template holds the placeholder {sq}
HasPlaceholder(t) ==
  \E i \in 1 .. Len(t) : SubSeq(t, i, i + 2) = <<"{", "sq", "}">>

\* C3: extract_template_url raises, and returns no template, when the manifest
\* has no non-empty non-directive line and also when its first non-directive
\* line holds no /sq/<integer>/ component; every template returned holds the
\* placeholder.
C3_NoPatternRaises ==
  (ret.done /\ call.fn = "extract_template_url") =>
    LET i == NearestUri(call.manifest, 1)
    IN /\ (i = 0 \/ SqSearch(Strip(call.manifest[i])) = 0) => ~ret.res.ok
       /\ ret.res.ok => HasPlaceholder(ret.res.val)

\* the non-directive lines of the manifest that hold a /sq/<n>/ component
SqLines(manifest) ==
  {Strip(manifest[i]) : i \in {j \in 1 .. Len(manifest) :
      /\ Strip(manifest[j]) # <<>>
      /\ ~StartsWithHash(Strip(manifest[j]))
      /\ SqSearch(Strip(manifest[j])) > 0}}

\* line with the number of its leftmost /sq/<n>/ component replaced by str(k)
WithSq(line, k) ==
  LET p == SqSearch(line)
  IN SubSeq(line, 1, p + 2) \o IntStr(k)
       \o SubSeq(line, p + SqMatchLen(line, p) - 1, Len(line))

\* C4: for a manifest with a non-directive line holding /sq/<n>/,
\* extract_template_url returns a template that gives that line back when n is
\* substituted, and that line with only the number changed for any other
\* non-negative integer.  (The line is compared without its surrounding blanks
\* and with n written without leading zeros, which is the reading kindest to
\* the code.)
C4_TemplateRoundTrip ==
  (ret.done /\ call.fn = "extract_template_url" /\ SqLines(call.manifest) # {}) =>
    /\ ret.res.ok
    /\ \E line \in SqLines(call.manifest) :
         LET n == DigitsVal(SqGroup(line, SqSearch(line)))
         IN \A k \in (0 .. MaxSq) \cup {n} :
              Format(ret.res.val, k) = Ok(WithSq(line, k))

\* C5: the playlist build_playlist returns is the four header lines with
\* #EXT-X-MEDIA-SEQUENCE equal to start_sq, then exactly
\* max(0, end_sq - start_sq + 1) pairs of #EXTINF and the template instantiated
\* with start_sq, start_sq + 1, ..., end_sq in that order, then #EXT-X-ENDLIST
\* as the last line; an inverted range gives no pairs.
C5_PlaylistStructure ==
  (ret.done /\ call.fn = "build_playlist" /\ ret.res.ok) =>
    LET doc == ret.res.val
        n == IF call.end_sq - call.start_sq + 1 > 0
             THEN call.end_sq - call.start_sq + 1 ELSE 0
    IN /\ Len(doc) = 4 + 2 * n + 1
       /\ doc[1] = <<"#EXTM3U">>
       /\ doc[2] = <<"#EXT-X-VERSION:3">>
       /\ doc[3] = <<"#EXT-X-TARGETDURATION:", "5">>
       /\ doc[4] = <<"#EXT-X-MEDIA-SEQUENCE:">> \o IntStr(call.start_sq)
       /\ \A k \in 1 .. n :
            /\ doc[3 + 2 * k] = <<"#EXTINF:5.0,">>
            /\ Format(call.template_url, call.start_sq + k - 1) = Ok(doc[4 + 2 * k])
       /\ doc[Len(doc)] = <<"#EXT-X-ENDLIST">>

\* build_playlist(template, 100, 102) has returned its three pairs
C5_Witness ==
  /\ ret.done /\ call.fn = "build_playlist"
  /\ call.template_url = SqSub(UriPlain)
  /\ call.start_sq = 100 /\ call.end_sq = 102
  /\ ret.res.ok /\ Len(ret.res.val) = 11
  /\ ret.res.val[10] = <<Host, "/", "sq", "/", "1", "0", "2", "/", "seg.ts">>

\* C6: build_playlist returns a playlist, and never raises, for every template
\* extract_template_url can return and every range.
C6_BuildPlaylistTotal ==
  (ret.done /\ call.fn = "build_playlist") => ret.res.ok

\* ====================================================== claims on main()

\* the invocation has its manifest and has left the choice of the range behind
PastWindow(p) ==
  HasOp(p, "find_manifest_reference_point") /\ pc[p] # "window"

\* C7: in time mode, when the manifest gives no reference point the invocation
\* ends with NoReferencePointError and exit status 1, and it has parsed no
\* timestamp, extracted no template, built and written no playlist and has not
\* run the muxer.
C7_NoReferencePointStops ==
  \A p \in Procs :
    (PastWindow(p) /\ ~loc[p].segment_mode /\ ~loc[p].ref.some) =>
      /\ pc[p] = "end"
      /\ exit[p] = Exited(1, "NoReferencePointError")
      /\ \A i \in 1 .. Len(log[p]) :
           log[p][i].op \notin {"parse_utc", "extract_template_url",
                                "build_playlist", "write", "ffmpeg", "remove"}
      /\ ~loc[p].range.some /\ ~loc[p].template.some /\ ~loc[p].playlist.some
      /\ muxRead[p] = NotRun
      /\ tmpfile = None

\* two valid timestamps, a manifest with a segment but no date-time directive
C7_Witness ==
  /\ argv[1].arg3 = <<T0>> /\ argv[1].arg4 = <<"2025-02-13T21:00:10Z">>
  /\ loc[1].manifest = <<UriThousand>>
  /\ pc[1] = "end"
  /\ exit[1] = Exited(1, "NoReferencePointError")

\* C8: when both window tokens are integers a and b, the range resolved and
\* handed to build_playlist is (a, b), whatever the buffer and the manifest,
\* with or without a reference point.
C8_IndexModeIdentity ==
  \A p \in Procs :
    (PastWindow(p) /\ loc[p].segment_mode) =>
      /\ loc[p].range = Some(<<IntOf(argv[p].arg3), IntOf(argv[p].arg4)>>)
      /\ \A i \in 1 .. Len(log[p]) :
           log[p][i].op = "build_playlist" =>
             log[p][i].args = <<IntOf(argv[p].arg3), IntOf(argv[p].arg4)>>

\* tokens "03" and " -1", the default buffer of 60 s, no reference point:
\* build_playlist was handed (3, -1)
C8_Witness ==
  /\ argv[1].arg3 = <<"0", "3">> /\ argv[1].arg4 = <<" ", "-", "1">>
  /\ argv[1].buffer = None
  /\ PastWindow(1) /\ ~loc[1].ref.some
  /\ \E i \in 1 .. Len(log[1]) : log[1][i] = Entry("build_playlist", <<3, -1>>)

\* C9: an invocation runs the muxer only after it has written the transient
\* playlist, and once an invocation that wrote it has ended, with exit status
\* zero or not, the transient playlist is gone.
C9_TransientPlaylistRemoved ==
  \A p \in Procs :
    /\ \A i \in 1 .. Len(log[p]) :
         log[p][i].op = "ffmpeg" =>
           \E j \in 1 .. (i - 1) : log[p][j].op = "write"
    /\ (exit[p].ended /\ HasOp(p, "write")) => tmpfile = None

\* the muxer read the playlist and failed; the invocation ended with status 1
C9_Witness ==
  /\ exit[1] = Exited(1, "ffmpeg failed")
  /\ HasOp(1, "write") /\ HasOp(1, "ffmpeg")
  /\ muxRead[1].st = "read"
  /\ tmpfile = None

\* C10: the playlist the muxer of an invocation reads is the one that
\* invocation built, and it is there when the muxer reads it.
C10_MuxerReadsOwnPlaylist ==
  \A p \in Procs :
    muxRead[p].st # "not_run" =>
      /\ muxRead[p].st = "read"
      /\ muxRead[p].val = loc[p].playlist.val

====
